---- MODULE Spec2Model ----
(***************************************************************************)
(* tree-rs: the traversal driver of src/main.rs (iterate_folders,          *)
(* update_levels, set_line_prefix, get_iterator) over the two iterator     *)
(* stages it is built on: pathiterator::FileIterator (the walker) and      *)
(* filter::FilteredIterator (the directory pruning stage).                 *)
(*                                                                         *)
(* Levels are the code's entry.level: the root entry is level 0 and is the *)
(* first entry of the sequence, the root's children are level 1.           *)
(***************************************************************************)
EXTENDS Integers, Sequences, FiniteSets, TLC

VARIABLES args, fs, config, list, levels, prefix, summary, out, pc

vars == <<args, fs, config, list, levels, prefix, summary, out, pc>>

\* ------------------------------------------------------------------ bounds
\* number of filesystem objects below the root
MaxNodes == 4
\* the finite values of -L that are tried: 0..MaxLevelArg, plus "no limit"
MaxLevelArg == 2
\* longest level stack handed to set_line_prefix on its own
MaxStack == 4
\* number of objects below the root in the runs with hidden names, unreadable
\* directories, symbolic links, or the whole of main
MaxSmallNodes == 3
MaxLinkNodes == 2

\* ------------------------------------------------------------ the file tree
\* Objects are numbered 0..fs.n; 0 is the root path given on the command
\* line.  fs.parent[i] is the directory holding i, fs.class[i] is what i is:
\* a directory, a file whose name matches the include pattern, or a file
\* whose name does not.  The name of object i sorts as the number i.
Root == 0

Classes == {"dir", "file_match", "file_other"}

Nodes == 1..fs.n

ParentOf(n) == fs.parent[n]

is_dir_node(n) == IF n = Root THEN fs.rootIsDir ELSE fs.class[n] = "dir"

NameMatches(n) == n # Root /\ fs.class[n] = "file_match"

IsHidden(n) == n # Root /\ fs.hidden[n]

RECURSIVE LevelOf(_)
LevelOf(n) == IF n = Root THEN 0 ELSE 1 + LevelOf(ParentOf(n))

RECURSIVE IsAncestor(_, _)
\* a is a proper ancestor of n
IsAncestor(a, n) ==
    IF n = Root THEN FALSE
    ELSE ParentOf(n) = a \/ IsAncestor(a, ParentOf(n))

\* a filesystem tree: every object lies in a directory, numbering is
\* breadth-first (so every ordered tree shape occurs once)
WellFormedTree(t) ==
    /\ \A i \in 1..t.n : t.parent[i] < i
    /\ \A i \in 1..t.n : t.parent[i] = Root \/ t.class[t.parent[i]] = "dir"
    /\ \A i \in 1..t.n : \A j \in 1..t.n : i < j => t.parent[i] <= t.parent[j]
    /\ (t.n > 0 => t.rootIsDir)

\* a directory that cannot be opened, and symbolic links to the directory
\* holding them and to the root
ErrorClasses == {"dir_unreadable"}

LinkClasses == {"symlink_to_parent", "symlink_to_root"}

IsSymlink(n) == n # Root /\ fs.class[n] \in LinkClasses

LinkTarget(n) == IF fs.class[n] = "symlink_to_root" THEN Root ELSE ParentOf(n)

\* the stat of the entry succeeded (IteratorItem.metadata is Ok)
metadata_ok(n) == n = Root \/ fs.class[n] \notin ErrorClasses

\* as WellFormedTree, with objects also lying in directories that cannot be
\* opened
WellFormedTreeOnDisk(t) ==
    /\ \A i \in 1..t.n : t.parent[i] < i
    /\ \A i \in 1..t.n :
         t.parent[i] = Root \/ t.class[t.parent[i]] \in {"dir", "dir_unreadable"}
    /\ \A i \in 1..t.n : \A j \in 1..t.n : i < j => t.parent[i] <= t.parent[j]
    /\ (t.n > 0 => t.rootIsDir)

\* "no limit": Args.max_level defaults to usize::MAX, which no level reaches
Unlimited == MaxNodes + 1

\* -------------------------------------------------- pathiterator (walker)
\* IteratorItem: the fields iterate_folders reads
Item(n, lvl, last) == [node |-> n, level |-> lvl, is_last |-> last]

None == [node |-> -1, level |-> 0, is_last |-> FALSE]

is_dir(item) == is_dir_node(item.node)

\* the walker's filter on one directory entry: hidden names are skipped unless
\* show_hidden, files are skipped unless they match the include glob
is_included(cfg, n) ==
    /\ cfg.show_hidden \/ ~IsHidden(n)
    /\ is_dir_node(n) \/ ~cfg.include_glob \/ NameMatches(n)

RECURSIVE SortByName_descending(_)
\* the entries of a set in descending name order
SortByName_descending(S) ==
    IF S = {} THEN <<>>
    ELSE LET most == CHOOSE x \in S : \A y \in S : x >= y
         IN  <<most>> \o SortByName_descending(S \ {most})

RECURSIVE SortByName(_)
\* the entries of a set in ascending name order
SortByName(S) ==
    IF S = {} THEN <<>>
    ELSE LET least == CHOOSE x \in S : \A y \in S : x <= y
         IN  <<least>> \o SortByName(S \ {least})

\* DirectoryReader: the included children of directory d, name-sorted
read_dir(cfg, d) ==
    SortByName({c \in Nodes : ParentOf(c) = d /\ is_included(cfg, c)})

Frame(cfg, d) == [children |-> read_dir(cfg, d), idx |-> 0]

RECURSIVE PopExhausted(_)
PopExhausted(frames) ==
    IF frames = <<>> THEN <<>>
    ELSE LET top == frames[Len(frames)]
         IN  IF top.idx >= Len(top.children)
             THEN PopExhausted(SubSeq(frames, 1, Len(frames) - 1))
             ELSE frames

\* FileIterator::new(path, config); opened records the directories whose
\* children have been read
FileIterator_new(cfg) ==
    [config |-> cfg, started |-> FALSE, frames |-> <<>>, opened |-> {}]

\* a walker that follows symbolic links: a link is descended into as the
\* directory it points to
Descend_follow_links(w, frames, n, lvl) ==
    IF (is_dir_node(n) \/ IsSymlink(n)) /\ lvl < w.config.max_level
    THEN [w EXCEPT !.started = TRUE,
                   !.frames = Append(frames,
                                Frame(w.config,
                                      IF IsSymlink(n) THEN LinkTarget(n) ELSE n)),
                   !.opened = @ \cup {n}]
    ELSE [w EXCEPT !.started = TRUE, !.frames = frames]

\* the entry just yielded is descended into when it is a directory above the
\* depth limit: its children are read and a frame is pushed for it
Descend(w, frames, n, lvl) ==
    IF is_dir_node(n) /\ lvl < w.config.max_level
    THEN [w EXCEPT !.started = TRUE,
                   !.frames = Append(frames, Frame(w.config, n)),
                   !.opened = @ \cup {n}]
    ELSE [w EXCEPT !.started = TRUE, !.frames = frames]

\* FileIterator::next: the next entry (or None) and the walker's new state
FileIterator_next(w) ==
    IF ~w.started
    THEN [item |-> Item(Root, 0, TRUE), w |-> Descend(w, <<>>, Root, 0)]
    ELSE LET frames == PopExhausted(w.frames)
         IN  IF frames = <<>>
             THEN [item |-> None, w |-> [w EXCEPT !.frames = <<>>]]
             ELSE LET depth == Len(frames)
                      top == frames[depth]
                      i == top.idx + 1
                      child == top.children[i]
                      advanced == [frames EXCEPT ![depth].idx = i]
                  IN  [item |-> Item(child, depth, i = Len(top.children)),
                       w |-> Descend(w, advanced, child, depth)]

\* ----------------------------------------------- filter (pruning stage)
\* FilteredIterator::new: one buffer per open ancestor directory (open),
\* entries decided and waiting to be handed out (ready)
FilteredIterator_new(src) ==
    [source |-> src, skip |-> FALSE, open |-> <<>>, ready |-> <<>>]

\* FilteredIterator::skip_filter
skip_filter(f) == [f EXCEPT !.skip = TRUE]

RECURSIVE CloseBuffers(_, _, _)
\* close every open directory of level >= lvl, innermost first: a directory
\* with an empty buffer is dropped, any other is released, followed by its
\* buffer, to the enclosing buffer (or to ready when none encloses it).
\* The entries keep the is_last flag the walker gave them.
CloseBuffers(open, ready, lvl) ==
    IF open = <<>> \/ open[Len(open)].dir.level < lvl
    THEN [open |-> open, ready |-> ready]
    ELSE LET top == open[Len(open)]
             rest == SubSeq(open, 1, Len(open) - 1)
             sub == IF top.buf = <<>> THEN <<>> ELSE <<top.dir>> \o top.buf
         IN  IF rest = <<>>
             THEN CloseBuffers(rest, ready \o sub, lvl)
             ELSE CloseBuffers([rest EXCEPT ![Len(rest)].buf = @ \o sub],
                               ready, lvl)

\* a pruning stage that buffers directories but never releases them
Accept_drop_dirs(f, item) ==
    IF item.level = 0 \/ ~is_dir(item)
    THEN [f EXCEPT !.ready = Append(@, item)]
    ELSE f

\* one entry of the walker taken in by the pruning stage
Accept(f, item) ==
    LET c == CloseBuffers(f.open, f.ready, item.level)
    IN  IF item.level = 0
        THEN \* the root is never filtered out
             [f EXCEPT !.open = c.open, !.ready = Append(c.ready, item)]
        ELSE IF is_dir(item)
        THEN [f EXCEPT !.open = Append(c.open, [dir |-> item, buf |-> <<>>]),
                       !.ready = c.ready]
        ELSE IF c.open = <<>>
        THEN [f EXCEPT !.open = c.open, !.ready = Append(c.ready, item)]
        ELSE [f EXCEPT !.open = [c.open EXCEPT ![Len(c.open)].buf =
                                    Append(@, item)],
                       !.ready = c.ready]

Dequeue(f) ==
    IF f.ready = <<>>
    THEN [item |-> None, f |-> f]
    ELSE [item |-> Head(f.ready), f |-> [f EXCEPT !.ready = Tail(@)]]

RECURSIVE Pull(_)
\* read the walker until an entry is ready or the walker is exhausted
Pull(f) ==
    LET r == FileIterator_next(f.source)
    IN  IF r.item = None
        THEN LET c == CloseBuffers(f.open, f.ready, 0)
             IN  Dequeue([f EXCEPT !.source = r.w, !.open = c.open,
                                   !.ready = c.ready])
        ELSE LET g == Accept([f EXCEPT !.source = r.w], r.item)
             IN  IF g.ready # <<>> THEN Dequeue(g) ELSE Pull(g)

\* FilteredIterator::next
FilteredIterator_next(f) ==
    IF f.skip
    THEN LET r == FileIterator_next(f.source)
         IN  [item |-> r.item, f |-> [f EXCEPT !.source = r.w]]
    ELSE IF f.ready # <<>> THEN Dequeue(f)
    ELSE Pull(f)

\* -------------------------------------------------------------- main.rs
\* dirsign and the plain space pushed by set_line_prefix
HORZ == "HORZ"
CROSS == "CROSS"
VERT == "VERT"
LAST_FILE == "LAST_FILE"
BLANK == "NBSP"
SPACE == "SPACE"

\* levels.len().saturating_sub(1), summary.num_folders.saturating_sub(1)
saturating_sub(a, b) == IF a >= b THEN a - b ELSE 0

\* String::clear
clear(s) == <<>>

RECURSIVE Segments(_, _)
\* levels.iter().take(index).for_each(...)
Segments(lv, index) ==
    IF index = 0 THEN <<>>
    ELSE Segments(lv, index - 1) \o
         (IF lv[index] THEN <<VERT, BLANK, BLANK>> ELSE <<SPACE, SPACE, SPACE>>)
         \o <<SPACE>>

\* the connector with its two glyphs exchanged
Connector_swapped(lv) ==
    IF lv = <<>> THEN <<>>
    ELSE <<IF lv[Len(lv)] THEN LAST_FILE ELSE CROSS, HORZ, HORZ, SPACE>>

\* if let Some(last) = levels.last()
Connector(lv) ==
    IF lv = <<>> THEN <<>>
    ELSE <<IF lv[Len(lv)] THEN CROSS ELSE LAST_FILE, HORZ, HORZ, SPACE>>

\* set_line_prefix without its prefix.clear()
set_line_prefix_no_clear(lv, buf) ==
    LET index == saturating_sub(Len(lv), 1)
    IN  buf \o Segments(lv, index) \o Connector(lv)

\* set_line_prefix(levels, prefix): the new content of the prefix buffer
set_line_prefix(lv, buf) ==
    LET index == saturating_sub(Len(lv), 1)
    IN  clear(buf) \o Segments(lv, index) \o Connector(lv)

\* update_levels without its `while levels.len() > level { levels.pop(); }`
update_levels_no_pop(lv, level, is_last) ==
    LET pushed == IF level > Len(lv) THEN Append(lv, ~is_last) ELSE lv
    IN  IF Len(pushed) > 0
        THEN [pushed EXCEPT ![saturating_sub(Len(pushed), 1) + 1] = ~is_last]
        ELSE pushed

\* update_levels that pushes but does not overwrite the last element
update_levels_no_set(lv, level, is_last) ==
    LET popped == IF Len(lv) > level THEN SubSeq(lv, 1, level) ELSE lv
    IN  IF level > Len(popped) THEN Append(popped, ~is_last) ELSE popped

\* update_levels that writes !is_last into every element it keeps
update_levels_fill(lv, level, is_last) ==
    LET popped == IF Len(lv) > level THEN SubSeq(lv, 1, level) ELSE lv
        pushed == IF level > Len(popped) THEN Append(popped, ~is_last) ELSE popped
    IN  [i \in 1..Len(pushed) |-> ~is_last]

\* TreePrinter::update_levels: the new content of levels
update_levels(lv, level, is_last) ==
    LET popped == IF Len(lv) > level THEN SubSeq(lv, 1, level) ELSE lv
        pushed == IF level > Len(popped) THEN Append(popped, ~is_last) ELSE popped
    IN  IF Len(pushed) > 0
        THEN [pushed EXCEPT ![saturating_sub(Len(pushed), 1) + 1] = ~is_last]
        ELSE pushed

\* Glob::new on the text given with -P: the patterns are told apart only by
\* whether they compile
Glob_new_ok(pattern) == pattern # "invalid"

\* Config::try_from that takes a pattern that does not compile for none
Config_try_from_no_check(a) ==
    [ok |-> TRUE,
     config |-> [use_color |-> a.color_on \/ ~a.color_off,
                 show_hidden |-> a.show_all,
                 max_level |-> a.max_level,
                 include_glob |-> a.include_pattern # "none"
                                  /\ Glob_new_ok(a.include_pattern)]]

\* Config::try_from whose use_color looks at -n alone
Config_try_from_color_off_only(a) ==
    IF a.include_pattern # "none" /\ ~Glob_new_ok(a.include_pattern)
    THEN [ok |-> FALSE]
    ELSE [ok |-> TRUE,
          config |-> [use_color |-> ~a.color_off,
                      show_hidden |-> a.show_all,
                      max_level |-> a.max_level,
                      include_glob |-> a.include_pattern # "none"]]

\* impl TryFrom<&Args> for Config: Err when the pattern does not compile
Config_try_from(a) ==
    IF a.include_pattern # "none" /\ ~Glob_new_ok(a.include_pattern)
    THEN [ok |-> FALSE]
    ELSE [ok |-> TRUE,
          config |-> [use_color |-> a.color_on \/ ~a.color_off,
                      show_hidden |-> a.show_all,
                      max_level |-> a.max_level,
                      include_glob |-> a.include_pattern # "none"]]

\* DirEntrySummary::new
DirEntrySummary_new == [num_folders |-> 0, num_files |-> 0]

\* get_iterator that skips the filter whatever the configuration
get_iterator_always_skip(cfg) ==
    LET FileIteratorConfig == [include_glob |-> cfg.include_glob,
                               max_level |-> cfg.max_level,
                               show_hidden |-> cfg.show_hidden]
    IN  skip_filter(FilteredIterator_new(FileIterator_new(FileIteratorConfig)))

\* get_iterator that does not hand max_level on to the walker
get_iterator_no_limit(cfg) ==
    LET FileIteratorConfig == [include_glob |-> cfg.include_glob,
                               max_level |-> Unlimited,
                               show_hidden |-> cfg.show_hidden]
        l == FilteredIterator_new(FileIterator_new(FileIteratorConfig))
    IN  IF ~cfg.include_glob THEN skip_filter(l) ELSE l

\* get_iterator that tells the walker to show hidden entries
get_iterator_show_all(cfg) ==
    LET FileIteratorConfig == [include_glob |-> cfg.include_glob,
                               max_level |-> cfg.max_level,
                               show_hidden |-> TRUE]
        l == FilteredIterator_new(FileIterator_new(FileIteratorConfig))
    IN  IF ~cfg.include_glob THEN skip_filter(l) ELSE l

\* get_iterator that never calls skip_filter
get_iterator_never_skip(cfg) ==
    LET FileIteratorConfig == [include_glob |-> cfg.include_glob,
                               max_level |-> cfg.max_level,
                               show_hidden |-> cfg.show_hidden]
    IN  FilteredIterator_new(FileIterator_new(FileIteratorConfig))

\* TreePrinter::get_iterator
get_iterator(cfg) ==
    LET FileIteratorConfig == [include_glob |-> cfg.include_glob,
                               max_level |-> cfg.max_level,
                               show_hidden |-> cfg.show_hidden]
        l == FilteredIterator_new(FileIterator_new(FileIteratorConfig))
    IN  IF ~cfg.include_glob THEN skip_filter(l) ELSE l

\* counters that leave the level-0 entry out
Count_skip_root(s, entry) ==
    IF entry.level = 0 THEN s
    ELSE IF is_dir(entry)
    THEN [s EXCEPT !.num_folders = @ + 1]
    ELSE [s EXCEPT !.num_files = @ + 1]

\* the body of iterate_folders's for loop, lines 201-207: the counters
Count(s, entry) ==
    IF is_dir(entry)
    THEN [s EXCEPT !.num_folders = @ + 1]
    ELSE [s EXCEPT !.num_files = @ + 1]

\* print_line: the line written for entry; error is the "[Error]" marker
\* written when entry.metadata is not Ok
Line(entry, pre) ==
    [node |-> entry.node, level |-> entry.level, is_last |-> entry.is_last,
     prefix |-> pre, error |-> ~metadata_ok(entry.node)]

\* print_line that hands the entry's error on to its caller
print_line_propagate(entry) ==
    IF metadata_ok(entry.node) THEN "Ok" ELSE "Err"

\* print_line: its io::Result (writes to the terminal are taken to succeed)
print_line(entry) == "Ok"

\* the subtraction after the loop without saturation
Finish_plain_sub(s) == [s EXCEPT !.num_folders = @ - 1]

\* after the loop, lines 213-215
Finish(s) == [s EXCEPT !.num_folders = saturating_sub(@, 1)]

\* ----------------------------------------------------------- the machine
Trees(maxn) ==
    UNION {{t \in [n : {n}, rootIsDir : BOOLEAN, parent : [1..n -> 0..(maxn - 1)],
                  class : [1..n -> Classes], hidden : [1..n -> {FALSE}]] :
            WellFormedTree(t)} : n \in 0..maxn}

Configs ==
    [use_color : {FALSE},
     max_level : (0..MaxLevelArg) \cup {Unlimited},
     show_hidden : {FALSE},
     include_glob : BOOLEAN]

\* the command line that yields configuration cfg (colour off, as in the
\* tests)
ArgsOf(cfg) ==
    [show_all |-> cfg.show_hidden, color_on |-> FALSE,
     color_off |-> ~cfg.use_color,
     include_pattern |-> IF cfg.include_glob THEN "valid" ELSE "none",
     max_level |-> cfg.max_level]

Init ==
    /\ fs \in Trees(MaxNodes)
    /\ config \in Configs
    /\ args = ArgsOf(config)
    /\ list = get_iterator(config)
    /\ levels = <<>>
    /\ prefix = <<>>
    /\ summary = DirEntrySummary_new
    /\ out = <<>>
    /\ pc = "loop"

\* one iteration of `for entry in self.get_iterator(path)`
iterate_folders_entry ==
    /\ pc = "loop"
    /\ LET r == FilteredIterator_next(list)
       IN  /\ r.item # None
           /\ list' = r.f
           /\ levels' = update_levels(levels, r.item.level, r.item.is_last)
           /\ summary' = Count(summary, r.item)
           /\ prefix' = set_line_prefix(levels', prefix)
           /\ out' = Append(out, Line(r.item, prefix'))
           /\ pc' = IF print_line(r.item) = "Ok" THEN "loop" ELSE "error"
    /\ UNCHANGED <<args, fs, config>>

\* the iterator is exhausted: the loop ends and the summary is returned
iterate_folders_return ==
    /\ pc = "loop"
    /\ LET r == FilteredIterator_next(list)
       IN  /\ r.item = None
           /\ list' = r.f
    /\ summary' = Finish(summary)
    /\ pc' = "summary"
    /\ UNCHANGED <<args, fs, config, levels, prefix, out>>

\* main: the summary line is written
main_summary ==
    /\ pc = "summary"
    /\ pc' = "done"
    /\ UNCHANGED <<args, fs, config, list, levels, prefix, summary, out>>

Next == iterate_folders_entry \/ iterate_folders_return \/ main_summary

Spec == Init /\ [][Next]_vars

\* trees of at most maxn objects whose classes are drawn from classes and
\* whose hidden flags are drawn from hiddens
TreesOnDisk(maxn, classes, hiddens) ==
    UNION {{t \in [n : {n}, rootIsDir : BOOLEAN, parent : [1..n -> 0..(maxn - 1)],
                  class : [1..n -> classes], hidden : [1..n -> hiddens]] :
            WellFormedTreeOnDisk(t)} : n \in 0..maxn}

\* a run of iterate_folders on tree fs with configuration config
InitRun(trees, configs) ==
    /\ fs \in trees
    /\ config \in configs
    /\ args = ArgsOf(config)
    /\ list = get_iterator(config)
    /\ levels = <<>>
    /\ prefix = <<>>
    /\ summary = DirEntrySummary_new
    /\ out = <<>>
    /\ pc = "loop"

\* runs on trees that hold directories that cannot be opened, no pattern
InitUnreadable ==
    InitRun(TreesOnDisk(MaxSmallNodes, {"dir", "file_other", "dir_unreadable"},
                        {FALSE}),
            [use_color : {FALSE}, max_level : (0..MaxLevelArg) \cup {Unlimited},
             show_hidden : {FALSE}, include_glob : {FALSE}])

SpecUnreadable == InitUnreadable /\ [][Next]_vars

\* runs on trees that hold hidden names, with and without -a
InitHidden ==
    InitRun(TreesOnDisk(MaxSmallNodes, Classes, BOOLEAN),
            [use_color : {FALSE}, max_level : (0..MaxLevelArg) \cup {Unlimited},
             show_hidden : BOOLEAN, include_glob : BOOLEAN])

SpecHidden == InitHidden /\ [][Next]_vars

\* runs on trees that hold symbolic links to ancestor directories, no
\* pattern; the program takes its steps until it has ended
InitSymlink ==
    InitRun(TreesOnDisk(MaxLinkNodes,
                        {"dir", "file_other", "symlink_to_parent", "symlink_to_root"},
                        {FALSE}),
            [use_color : {FALSE}, max_level : {MaxLevelArg, Unlimited},
             show_hidden : {FALSE}, include_glob : {FALSE}])

SpecSymlink == InitSymlink /\ [][Next]_vars /\ WF_vars(Next)

\* set_line_prefix on its own: any level stack, and a prefix buffer that
\* still holds an earlier line's prefix
\* ------------------------------------------------ the machine, from main
\* config and list before main has built them
NotConstructed == [constructed |-> FALSE]

\* Args::parse: the command lines of the runs
ArgsSet ==
    [show_all : {FALSE}, color_on : BOOLEAN, color_off : BOOLEAN,
     include_pattern : {"none", "valid", "invalid"},
     max_level : {MaxLevelArg, Unlimited}]

InitMain ==
    /\ fs \in TreesOnDisk(MaxLinkNodes, Classes, {FALSE})
    /\ args \in ArgsSet
    /\ config = NotConstructed
    /\ list = NotConstructed
    /\ levels = <<>>
    /\ prefix = <<>>
    /\ summary = DirEntrySummary_new
    /\ out = <<>>
    /\ pc = "main"

\* main: `Config::try_from(&args)?` fails and main returns the error
main_config_error ==
    /\ pc = "main"
    /\ ~Config_try_from(args).ok
    /\ pc' = "error"
    /\ UNCHANGED <<args, fs, config, list, levels, prefix, summary, out>>

\* main: the configuration is built, the printer is constructed and
\* iterate_folders is entered, up to the call of get_iterator (the terminal
\* is taken to exist)
main_iterate_folders ==
    /\ pc = "main"
    /\ Config_try_from(args).ok
    /\ config' = Config_try_from(args).config
    /\ list' = get_iterator(config')
    /\ summary' = DirEntrySummary_new
    /\ levels' = <<>>
    /\ prefix' = <<>>
    /\ pc' = "loop"
    /\ UNCHANGED <<args, fs, out>>

NextMain ==
    \/ main_config_error
    \/ main_iterate_folders
    \/ iterate_folders_entry
    \/ iterate_folders_return
    \/ main_summary

SpecMain == InitMain /\ [][NextMain]_vars

BoolSeqs(n) == UNION {[1..k -> BOOLEAN] : k \in 0..n}

EarlierPrefixes == {set_line_prefix(l, <<>>) : l \in BoolSeqs(2)}

InitPrefix ==
    /\ fs = [n |-> 0, rootIsDir |-> TRUE, parent |-> <<>>, class |-> <<>>,
             hidden |-> <<>>]
    /\ config = [use_color |-> FALSE, max_level |-> Unlimited,
                 show_hidden |-> FALSE, include_glob |-> FALSE]
    /\ args = ArgsOf(config)
    /\ list = get_iterator(config)
    /\ levels \in BoolSeqs(MaxStack)
    /\ prefix \in EarlierPrefixes
    /\ summary = DirEntrySummary_new
    /\ out = <<>>
    /\ pc = "set_line_prefix"

set_line_prefix_call ==
    /\ pc = "set_line_prefix"
    /\ prefix' = set_line_prefix(levels, prefix)
    /\ pc' = "returned"
    /\ UNCHANGED <<args, fs, config, list, levels, summary, out>>

SpecPrefix == InitPrefix /\ [][set_line_prefix_call]_vars

\* one call of update_levels from the loop of iterate_folders: the stack is
\* any stack, the entry handed out next lies at most one level below it
PendingEntries(lv) ==
    {Item(Root, level, last) : level \in 0..(Len(lv) + 1), last \in BOOLEAN}

InitLevels ==
    /\ fs = [n |-> 0, rootIsDir |-> TRUE, parent |-> <<>>, class |-> <<>>,
             hidden |-> <<>>]
    /\ config = [use_color |-> FALSE, max_level |-> Unlimited,
                 show_hidden |-> FALSE, include_glob |-> TRUE]
    /\ args = ArgsOf(config)
    /\ levels \in BoolSeqs(MaxStack)
    /\ \E entry \in PendingEntries(levels) :
         list = [get_iterator(config) EXCEPT !.ready = <<entry>>]
    /\ prefix = <<>>
    /\ summary = DirEntrySummary_new
    /\ out = <<>>
    /\ pc = "update_levels"

update_levels_call ==
    /\ pc = "update_levels"
    /\ LET r == FilteredIterator_next(list)
       IN  /\ list' = r.f
           /\ levels' = update_levels(levels, r.item.level, r.item.is_last)
    /\ pc' = "returned"
    /\ UNCHANGED <<args, fs, config, prefix, summary, out>>

SpecLevels == InitLevels /\ [][update_levels_call]_vars

\* ------------------------------------------------- what the tree contains
\* (read off the tree itself, not off the iterators)
AllNodes == Nodes \cup {Root}

Emitted == {out[i].node : i \in 1..Len(out)}

PosOf(n) == CHOOSE i \in 1..Len(out) : out[i].node = n

Visible(n) == config.show_hidden \/ ~IsHidden(n)

\* n is listed when its directory is read: it is visible, and it is a
\* directory or passes the include pattern
Listed(n) ==
    Visible(n) /\ (is_dir_node(n) \/ ~config.include_glob \/ NameMatches(n))

RECURSIVE WithinReach(_)
\* n lies within the depth limit under visible directories only
WithinReach(n) ==
    \/ n = Root
    \/ /\ Visible(n)
       /\ LevelOf(n) <= config.max_level
       /\ WithinReach(ParentOf(n))

\* a sibling of n with a greater name is listed in n's directory
LaterListedSibling(n) ==
    \E s \in Nodes : ParentOf(s) = ParentOf(n) /\ s > n /\ Listed(s)

\* the ancestor of n at level k (0 <= k <= LevelOf(n))
AncestorAt(n, k) ==
    CHOOSE a \in AllNodes : LevelOf(a) = k /\ (a = n \/ IsAncestor(a, n))

BarSegment == <<VERT, BLANK, BLANK, SPACE>>
BlankSegment == <<SPACE, SPACE, SPACE, SPACE>>

SegmentOf(pre, k) == SubSeq(pre, 4 * k - 3, 4 * k)

\* ------------------------------------------------------------------ C1
\* C1: on every emitted line, the prefix holds one 4-character segment per
\* level, and the segment of each proper ancestor A below the root is the
\* vertical bar segment exactly when a later sibling of A is listed in A's
\* directory (A was yielded with is_last = false), and blank otherwise.
C1_AncestorBars ==
    \A i \in 1..Len(out) :
        LET e == out[i].node
        IN  /\ Len(out[i].prefix) = 4 * LevelOf(e)
            /\ \A k \in 1..(LevelOf(e) - 1) :
                 LET a == AncestorAt(e, k)
                 IN  /\ a \in Emitted
                     /\ out[PosOf(a)].is_last = ~LaterListedSibling(a)
                     /\ SegmentOf(out[i].prefix, k) =
                          IF LaterListedSibling(a) THEN BarSegment
                          ELSE BlankSegment

\* a line two levels down whose two ancestors differ: after returning from a
\* deeper branch, one ancestor segment is a bar and another is blank
C1_Witness ==
    \E i \in 1..Len(out) :
        /\ LevelOf(out[i].node) >= 2
        /\ SegmentOf(out[i].prefix, 1) = BarSegment
        /\ \E j \in 1..Len(out) :
             /\ LevelOf(out[j].node) >= 2
             /\ SegmentOf(out[j].prefix, 1) = BlankSegment

\* ------------------------------------------------------------------ C2
\* C2: after every entry of a run the level stack is as long as the level of
\* the entry just rendered, and its last element is !is_last of that entry.
C2_StackMatchesEntry ==
    out # <<>> =>
        LET e == out[Len(out)]
        IN  /\ Len(levels) = e.level
            /\ e.level = LevelOf(e.node)
            /\ (e.level >= 1 => levels[Len(levels)] = ~e.is_last)

\* the walk has come back up by two levels and the stack was truncated
C2_Witness ==
    /\ Len(out) >= 2
    /\ out[Len(out)].level + 2 <= out[Len(out) - 1].level
    /\ Len(levels) = out[Len(out)].level

\* ------------------------------------------------------------------ C3
BranchConnector == <<CROSS, HORZ, HORZ, SPACE>>
TerminalConnector == <<LAST_FILE, HORZ, HORZ, SPACE>>

\* C3: for a stack of length n >= 1 the prefix is n-1 segments (bar segment
\* for true, blank segment for false) followed by the connector (branch when
\* the last element is true, terminal when false); for the empty stack it is
\* empty; whatever the buffer held before.
C3_PrefixOfStack ==
    pc = "returned" =>
        LET n == Len(levels)
        IN  /\ Len(prefix) = 4 * n
            /\ \A k \in 1..(n - 1) :
                 SegmentOf(prefix, k) =
                     IF levels[k] THEN BarSegment ELSE BlankSegment
            /\ (n >= 1 =>
                  SegmentOf(prefix, n) =
                      IF levels[n] THEN BranchConnector ELSE TerminalConnector)

\* a call on a stack with a true and a false element before its last one
C3_Witness ==
    /\ pc = "returned"
    /\ Len(levels) >= 3
    /\ levels[1] /\ ~levels[2]
    /\ Len(prefix) = 4 * Len(levels)

\* ------------------------------------------------------------------ C4
IsFile(n) == n # Root /\ ~is_dir_node(n)

InSubtree(d, n) == n = d \/ IsAncestor(d, n)

\* C4 as stated, for the entries below the root: with a pattern, a directory
\* is emitted iff some file in its subtree matches, and a file is emitted iff
\* its name matches.
C4_Original ==
    (pc # "loop" /\ config.include_glob) =>
        \A n \in Nodes :
            n \in Emitted <=>
                IF is_dir_node(n)
                THEN \E f \in Nodes :
                        IsFile(f) /\ IsAncestor(n, f) /\ NameMatches(f)
                ELSE NameMatches(n)

\* C4 amended: with a pattern, an entry below the root is emitted iff it lies
\* within reach (within the depth limit, under visible directories) and, for
\* a directory, some matching file of its subtree lies within reach, for a
\* file, its name matches.
C4_PruningWithinReach ==
    (pc # "loop" /\ config.include_glob) =>
        \A n \in Nodes :
            n \in Emitted <=>
                /\ WithinReach(n)
                /\ IF is_dir_node(n)
                   THEN \E f \in Nodes :
                           /\ IsFile(f) /\ IsAncestor(n, f)
                           /\ NameMatches(f) /\ WithinReach(f)
                   ELSE NameMatches(n)

\* a pruned walk that kept a directory for a match two levels below it and
\* dropped another directory
C4_Witness ==
    /\ pc = "done" /\ config.include_glob
    /\ \E d \in Nodes \cap Emitted : \E f \in Nodes \cap Emitted :
         is_dir_node(d) /\ IsFile(f) /\ IsAncestor(d, f) /\ ParentOf(f) # d
    /\ \E d \in Nodes \ Emitted : is_dir_node(d)

\* ------------------------------------------------------------------ C5
\* C5 as stated: with a pattern, an emitted entry has is_last = true iff no
\* later sibling under the same parent is emitted.
C5_Original ==
    (pc # "loop" /\ config.include_glob) =>
        \A i \in 1..Len(out) :
            out[i].is_last <=>
                ~\E j \in 1..Len(out) :
                    /\ out[i].node # Root /\ out[j].node # Root
                    /\ ParentOf(out[j].node) = ParentOf(out[i].node)
                    /\ out[j].node > out[i].node

\* C5 amended: an emitted entry below the root has is_last = true, and is
\* drawn with the terminal connector, iff no later sibling is listed in its
\* directory; a later directory counts even when it is pruned afterwards, a
\* later file that fails the pattern does not.
C5_LastAmongListed ==
    \A i \in 1..Len(out) :
        out[i].node # Root =>
            /\ out[i].is_last <=> ~LaterListedSibling(out[i].node)
            /\ SegmentOf(out[i].prefix, out[i].level) =
                 IF LaterListedSibling(out[i].node) THEN BranchConnector
                 ELSE TerminalConnector

\* the last emitted child of a directory carries the branch connector,
\* because a directory that sorts after it was pruned
C5_Witness ==
    /\ pc = "done" /\ config.include_glob
    /\ \E i \in 1..Len(out) :
         /\ out[i].node # Root /\ ~out[i].is_last
         /\ SegmentOf(out[i].prefix, out[i].level) = BranchConnector
         /\ \A s \in Nodes :
              (ParentOf(s) = ParentOf(out[i].node) /\ s > out[i].node)
                  => s \notin Emitted

\* ------------------------------------------------------------------ C6
\* C6: the final directory_count + file_count equals the number of emitted
\* lines not counting the root line.
C6_CountsEqualLines ==
    pc # "loop" => summary.num_folders + summary.num_files = Len(out) - 1

\* ------------------------------------------------------------------ C7
\* C7 as stated: with max_depth = k no entry deeper than k is emitted, every
\* directory at level k is emitted, and the children of a directory at level
\* k are neither read nor emitted.
C7_Original ==
    pc # "loop" =>
        /\ \A i \in 1..Len(out) : out[i].level <= config.max_level
        /\ \A d \in AllNodes :
             (is_dir_node(d) /\ LevelOf(d) = config.max_level) => d \in Emitted
        /\ \A d \in list.source.opened : LevelOf(d) < config.max_level
        /\ \A n \in Nodes :
             LevelOf(ParentOf(n)) >= config.max_level => n \notin Emitted

\* C7 amended: no entry deeper than k is emitted and the children of a
\* directory at level k are neither read nor emitted; a directory at level k
\* that lies under visible directories is emitted when no pattern is active
\* (or it is the root), and is never emitted when a pattern is active.
C7_DepthBound ==
    /\ \A i \in 1..Len(out) : LevelOf(out[i].node) <= config.max_level
    /\ \A d \in list.source.opened : LevelOf(d) < config.max_level
    /\ \A n \in Nodes \cap Emitted : LevelOf(ParentOf(n)) < config.max_level
    /\ pc # "loop" =>
         \A d \in AllNodes :
             (is_dir_node(d) /\ LevelOf(d) = config.max_level /\ WithinReach(d))
                 => (d \in Emitted <=> (~config.include_glob \/ d = Root))

\* a finished walk with a depth limit that emitted a directory at the limit
\* and none of its children
C7_Witness ==
    /\ pc = "done" /\ config.max_level <= MaxLevelArg
    /\ \E d \in Nodes \cap Emitted :
         /\ is_dir_node(d) /\ LevelOf(d) = config.max_level
         /\ \E c \in Nodes : ParentOf(c) = d /\ c \notin Emitted
         /\ d \notin list.source.opened

\* ------------------------------------------------------------------ C8
\* what a finished run must have emitted
ExpectedShown(n) ==
    \/ n = Root
    \/ /\ WithinReach(n)
       /\ \/ ~config.include_glob
          \/ IF is_dir_node(n)
             THEN \E f \in Nodes :
                     /\ IsFile(f) /\ IsAncestor(n, f)
                     /\ NameMatches(f) /\ WithinReach(f)
             ELSE NameMatches(n)

\* C8: the emitted sequence is a depth-first pre-order with siblings in
\* ascending name order: a directory precedes its subtree, its subtree
\* precedes its next sibling, and every surfaced object is emitted once.
C8_PreOrder ==
    /\ \A i \in 1..Len(out) : \A j \in 1..Len(out) :
         out[i].node = out[j].node => i = j
    /\ \A i \in 1..Len(out) :
         out[i].node # Root =>
             \E p \in 1..(i - 1) : out[p].node = ParentOf(out[i].node)
    /\ \A i \in 1..Len(out) : \A j \in 1..Len(out) :
         LET a == out[i].node
             b == out[j].node
         IN  (a # Root /\ b # Root /\ ParentOf(a) = ParentOf(b) /\ a < b) =>
                 /\ i < j
                 /\ \A m \in 1..Len(out) : IsAncestor(a, out[m].node) => m < j
    /\ pc # "loop" => Emitted = {n \in AllNodes : ExpectedShown(n)}

\* a finished run in which a directory with an emitted child is followed by
\* its sibling
C8_Witness ==
    /\ pc = "done"
    /\ \E a \in Nodes \cap Emitted : \E b \in Nodes \cap Emitted :
         /\ ParentOf(a) = ParentOf(b) /\ a < b
         /\ \E c \in Nodes \cap Emitted : ParentOf(c) = a

\* ------------------------------------------------------------------ C9
\* C9: between consecutive emitted entries the level rises by exactly 1, and
\* then the earlier entry is the directory holding the later one, or it stays
\* or falls, and then everything to emit from the subtrees being left has
\* been emitted; it never rises by 2 or more.
C9_DepthSteps ==
    \A i \in 1..(Len(out) - 1) :
        LET e1 == out[i]
            e2 == out[i + 1]
        IN  /\ e2.level <= e1.level + 1
            /\ e2.level = e1.level + 1 =>
                 is_dir(e1) /\ ParentOf(e2.node) = e1.node
            /\ e2.level <= e1.level =>
                 LET a == AncestorAt(e1.node, e2.level)
                 IN  /\ \A m \in (i + 1)..Len(out) : ~InSubtree(a, out[m].node)
                     /\ pc # "loop" =>
                          \A n \in AllNodes :
                              (ExpectedShown(n) /\ InSubtree(a, n))
                                  => n \in Emitted

\* with pruning active, the level fell by two between consecutive lines
C9_Witness ==
    /\ config.include_glob
    /\ \E i \in 1..(Len(out) - 1) :
         /\ out[i + 1].level + 2 <= out[i].level
         /\ \E j \in 1..(Len(out) - 1) : out[j + 1].level = out[j].level + 1

\* ----------------------------------------------------------------- C10
\* C10 as stated: the root line has an empty prefix and is printed before
\* the iteration; the root never passes through the counters.
C10_Original ==
    Len(out) = 1 =>
        /\ out[1].node = Root
        /\ out[1].prefix = <<>>
        /\ summary = DirEntrySummary_new

\* C10 amended: the root line has an empty prefix and is the first line; it
\* is the first (level 0) entry the loop consumes: update_levels leaves the
\* stack empty for it and it is counted once, as a directory or as a file.
\* No later entry is the root or has an empty prefix.
C10_RootIsFirstEntry ==
    /\ (pc # "loop" => out # <<>>)
    /\ out # <<>> =>
         /\ out[1].node = Root /\ out[1].level = 0 /\ out[1].prefix = <<>>
         /\ \A i \in 2..Len(out) : out[i].node # Root /\ out[i].prefix # <<>>
    /\ Len(out) = 1 =>
         /\ levels = <<>>
         /\ pc = "loop" =>
              summary = IF is_dir_node(Root)
                        THEN [num_folders |-> 1, num_files |-> 0]
                        ELSE [num_folders |-> 0, num_files |-> 1]

\* the loop has consumed the root entry and nothing else
C10_Witness ==
    /\ pc = "loop" /\ Len(out) = 1
    /\ out[1].node = Root
    /\ summary.num_folders + summary.num_files = 1

\* ----------------------------------------------------------------- C11
\* C11: with a pattern active the root line is always emitted; when no file
\* under the root matches, the output is the root line alone and the summary
\* reports 0 directories and 0 files.
C11_RootAlone ==
    (pc # "loop" /\ config.include_glob) =>
        /\ out # <<>> /\ out[1].node = Root
        /\ (\A n \in Nodes : ~NameMatches(n)) =>
             /\ Len(out) = 1
             /\ summary = [num_folders |-> 0, num_files |-> 0]

\* ----------------------------------------------------------------- C12
IsUnreadable(n) == n # Root /\ fs.class[n] = "dir_unreadable"

\* n lies under a directory that cannot be opened
BelowUnreadable(n) ==
    \E u \in Nodes : IsAncestor(u, n) /\ IsUnreadable(u)

NodesOfOut == [i \in 1..Len(out) |-> out[i].node]

RECURSIVE ExpectedBelow(_, _)
RECURSIVE ExpectedOver(_, _)
\* the pre-order listing of what lies below directory d (at level lvl), read
\* off the tree: listed children in ascending name order, each followed by
\* its own listing when it is a directory that can be opened above the limit
ExpectedBelow(d, lvl) ==
    ExpectedOver({c \in Nodes : ParentOf(c) = d /\ Listed(c)}, lvl + 1)

ExpectedOver(S, lvl) ==
    IF S = {} THEN <<>>
    ELSE LET c == CHOOSE x \in S : \A y \in S : x <= y
         IN  <<c>> \o (IF is_dir_node(c) /\ lvl < config.max_level
                       THEN ExpectedBelow(c, lvl) ELSE <<>>)
                   \o ExpectedOver(S \ {c}, lvl)

ExpectedWalk ==
    <<Root>> \o (IF is_dir_node(Root) /\ 0 < config.max_level
                 THEN ExpectedBelow(Root, 0) ELSE <<>>)

\* C12: a directory that cannot be opened yields exactly one entry carrying
\* the error and is not descended into; the walk goes on (every other entry
\* is emitted, in order), iterate_folders returns Ok, and the entry is
\* counted once, in num_files.
C12_UnreadableContained ==
    /\ pc # "error"
    /\ \A i \in 1..Len(out) :
         /\ out[i].error <=> IsUnreadable(out[i].node)
         /\ ~BelowUnreadable(out[i].node)
         /\ \A j \in 1..Len(out) : out[i].node = out[j].node => i = j
    /\ \A u \in list.source.opened : metadata_ok(u)
    /\ pc # "loop" =>
         /\ NodesOfOut = ExpectedWalk
         /\ summary.num_files =
              Cardinality({i \in 1..Len(out) : ~is_dir_node(out[i].node)})
         /\ summary.num_folders =
              saturating_sub(
                Cardinality({i \in 1..Len(out) : is_dir_node(out[i].node)}), 1)

\* a finished run that printed the error line of a directory holding an
\* object, and printed a later sibling after it
C12_Witness ==
    /\ pc = "done"
    /\ \E i \in 1..Len(out) : \E j \in 1..Len(out) :
         /\ out[i].error /\ i < j
         /\ ParentOf(out[i].node) = ParentOf(out[j].node)
         /\ \E c \in Nodes : ParentOf(c) = out[i].node
         /\ summary.num_files >= 1

\* ----------------------------------------------------------------- C13
BelowHidden(n) == \E h \in Nodes : IsAncestor(h, n) /\ IsHidden(h)

LaterVisibleSibling(n) ==
    \E s \in Nodes : ParentOf(s) = ParentOf(n) /\ s > n /\ ~IsHidden(s)

\* C13: with show_hidden = false no entry with a hidden name and nothing
\* below a hidden directory is emitted, and hidden entries do not count as
\* siblings: an emitted entry after which only hidden siblings sort has
\* is_last = true, and without a pattern the last visible child of every
\* directory the walk reads is emitted.
C13_HiddenSkipped ==
    ~config.show_hidden =>
        /\ \A i \in 1..Len(out) :
             LET n == out[i].node
             IN  /\ ~IsHidden(n) /\ ~BelowHidden(n)
                 /\ (n # Root /\ ~LaterVisibleSibling(n)) => out[i].is_last
                 /\ n # Root => (out[i].is_last <=> ~LaterListedSibling(n))
        /\ (pc # "loop" /\ ~config.include_glob) =>
             \A n \in Nodes :
                 (~IsHidden(n) /\ ~BelowHidden(n) /\ LevelOf(n) <= config.max_level)
                     => n \in Emitted

\* a finished run without -a: an entry was emitted as the last one although
\* a hidden name sorts after it, and a hidden directory holds an object
C13_Witness ==
    /\ pc = "done" /\ ~config.show_hidden
    /\ \E i \in 1..Len(out) :
         /\ out[i].node # Root /\ out[i].is_last
         /\ \E s \in Nodes :
              /\ ParentOf(s) = ParentOf(out[i].node) /\ s > out[i].node
              /\ IsHidden(s)
    /\ \E h \in Nodes : IsHidden(h) /\ \E c \in Nodes : ParentOf(c) = h

\* ----------------------------------------------------------------- C14
\* no link has been descended into, no object has been emitted twice, and
\* once the loop has ended every frame has been popped and every link within
\* the depth limit has been emitted
SymlinksNotFollowed ==
    /\ \A d \in list.source.opened : ~IsSymlink(d)
    /\ \A i \in 1..Len(out) : \A j \in 1..Len(out) :
         out[i].node = out[j].node => i = j
    /\ \A i \in 1..Len(out) :
         out[i].node # Root => ~IsSymlink(ParentOf(out[i].node))
    /\ pc # "loop" =>
         /\ list.source.frames = <<>>
         /\ \A n \in Nodes :
              (IsSymlink(n) /\ LevelOf(n) <= config.max_level) => n \in Emitted

\* C14: on every finite tree, links to ancestor directories included, links
\* are emitted but never descended into, every frame pushed is popped, and
\* the walk ends: the iterator reports exhaustion and the summary is printed.
C14_WalkTerminates ==
    /\ []SymlinksNotFollowed
    /\ <>(pc = "done" /\ list.source.frames = <<>>)

\* a finished run that emitted a link to the root lying in a subdirectory
C14_Witness ==
    /\ pc = "done"
    /\ \E i \in 1..Len(out) :
         /\ IsSymlink(out[i].node)
         /\ LinkTarget(out[i].node) = Root
         /\ out[i].level >= 2
    /\ Len(out) <= fs.n + 1

\* ----------------------------------------------------------------- C15
RECURSIVE WalkAll(_)
\* the whole sequence a walker yields, from state w to exhaustion
WalkAll(w) ==
    LET r == FileIterator_next(w)
    IN  IF r.item = None THEN <<>> ELSE <<r.item>> \o WalkAll(r.w)

\* the sequence the underlying walker produces for the run's configuration
WalkerSequence ==
    WalkAll(FileIterator_new([include_glob |-> config.include_glob,
                              max_level |-> config.max_level,
                              show_hidden |-> config.show_hidden]))

\* C15: without an include pattern the entries the filtering stage has
\* surfaced so far are, entry for entry (object, depth, is_last), the first
\* entries of the walker's own sequence, and once the loop has ended they are
\* the whole of it.
C15_Passthrough ==
    ~config.include_glob =>
        /\ Len(out) <= Len(WalkerSequence)
        /\ \A i \in 1..Len(out) :
             Item(out[i].node, out[i].level, out[i].is_last) = WalkerSequence[i]
        /\ pc # "loop" => Len(out) = Len(WalkerSequence)

\* a finished run without pattern that surfaced a directory holding nothing
\* and an entry two levels down
C15_Witness ==
    /\ ~config.include_glob
    /\ pc = "done"
    /\ \E i \in 1..Len(out) :
         /\ is_dir_node(out[i].node)
         /\ out[i].level >= 1
         /\ \A c \in Nodes : ParentOf(c) # out[i].node
    /\ \E i \in 1..Len(out) : out[i].level = 2

\* ----------------------------------------------------------------- C16
\* C16: in a run whose include pattern does not compile, main never gets
\* past Config::try_from: the configuration and the iterator are never
\* built, no line is printed and the summary line is never reached.
C16_InvalidPatternFirst ==
    (args.include_pattern = "invalid") =>
        /\ pc \in {"main", "error"}
        /\ config = NotConstructed
        /\ list = NotConstructed
        /\ out = <<>>
        /\ summary = DirEntrySummary_new

\* main has returned the error of a pattern that does not compile, on a
\* root directory that holds objects
C16_Witness ==
    /\ args.include_pattern = "invalid"
    /\ pc = "error"
    /\ fs.n > 0

DirectoryLines == Cardinality({i \in 1..Len(out) : is_dir_node(out[i].node)})

Max(a, b) == IF a >= b THEN a ELSE b

\* C19: during the loop num_folders is the number D of directory entries
\* counted; after it num_folders = max(0, D - 1), never negative, and 0 in a
\* run whose root is a plain file.
C19_SaturatingCount ==
    /\ summary.num_folders >= 0
    /\ pc = "loop" => summary.num_folders = DirectoryLines
    /\ pc # "loop" =>
         /\ summary.num_folders = Max(0, DirectoryLines - 1)
         /\ ~is_dir_node(Root) => summary.num_folders = 0

\* a finished run on a plain file: no directory was counted and the
\* subtraction saturated at 0
C19_Witness ==
    /\ pc = "done"
    /\ ~is_dir_node(Root)
    /\ Len(out) = 1
    /\ DirectoryLines = 0
    /\ summary.num_folders = 0

\* ----------------------------------------------------------------- C20
\* C20: a call update_levels(levels, level, is_last) with level >= 1 leaves
\* the elements below index level - 1 as they were, writes !is_last at index
\* level - 1 and keeps nothing above it; with level = 0 it empties the stack.
\* (Indices in the model start at 1.)
C20_FrameEffect ==
    [][pc = "update_levels" =>
        LET entry == Head(list.ready)
        IN  IF entry.level = 0
            THEN levels' = <<>>
            ELSE /\ Len(levels') = entry.level
                 /\ \A i \in 1..(entry.level - 1) : levels'[i] = levels[i]
                 /\ levels'[entry.level] = ~entry.is_last]_vars

\* a call has returned a stack of three whose two lower elements both differ
\* from the element written
C20_Witness ==
    /\ pc = "returned"
    /\ Len(levels) = 3
    /\ levels[1] # levels[3]
    /\ levels[2] # levels[3]

====
